---- MODULE Spec2Model ----
(***************************************************************************)
(* State-machine model of the network descriptors of src/Network.py:       *)
(* MLPDescriptor, ConvDescriptor and TConvDescriptor, their random         *)
(* initializers, their structural mutation operators and the shape         *)
(* arithmetic (compute_output) the shape caches are built from.            *)
(*                                                                         *)
(* One descriptor lives in the variable d.  A Python exception is modelled *)
(* by the return tag "raise": the fields assigned before the raising       *)
(* statement keep their new values, and the descriptor is not used again.  *)
(***************************************************************************)
EXTENDS Integers, Sequences, FiniteSets, TLC

VARIABLES
    d,      \* the descriptor object (a record of its fields)
    pc,     \* "fresh" (default-constructed), "built" (constructed from an explicit
            \* genome), "init" (inside a random_init loop), "tail" (after the
            \* loop), "ready" (usable), "raised" (an exception propagated)
    loc,    \* arguments and locals of random_init
    last,   \* the last call made on the descriptor: name, position, result
    calls,  \* number of mutation calls made on the descriptor so far
    snap    \* the descriptor before the most recent add_layer, kept while the
            \* only call since is a remove_layer at the same position

vars == <<d, pc, loc, last, calls, snap>>

-----------------------------------------------------------------------------
(* Bounds of the exploration *)

\* number of mutation calls explored on one descriptor
MaxCalls == 2

\* nlayers argument of MLPDescriptor.random_init
NLayers == 3

-----------------------------------------------------------------------------
(* Small input sets *)

\* entries of the activations catalog that np.random.choice draws
ActChoices == {1}

\* entries of the initializations catalog that np.random.choice draws
InitChoices == {1}

\* the None object stored as an initializer by ConvDescriptor.add_layer
NoneFn == -1

\* dropout probabilities, in percent
ProbChoices == {10}

\* the arguments a driver passes to add_layer, change_layer_dimension,
\* change_activation and change_weight_init
AddDim == 7

AddAct == {2}

AddInit == {2}

AddProb == 30

\* max_layer_size argument of MLPDescriptor.random_init
MaxLayerSize == 6

\* lay_params of ConvDescriptor.add_layer and TConvDescriptor.add_layer:
\* <<stride, filter size, activation, initializer>>
AddParams == {<<1, 2, 2, 2>>}

\* channel counts drawn by random_init: np.random.randint(3, 65)
ChanChoices == {4}

\* channel counts drawn by add_layer: np.random.randint(0, 65)
AddChannels == {0, 5}

\* new_kernel_size and new_channel arguments of change_filters
NewKernels == {1}

NewChannels == {6}

\* new_stride argument of change_stride
NewStrides == {2}

\* range(300) of TConvDescriptor.random_init
MaxAttempts == 300

\* largest spatial size given to compute_output, besides the 28 x 28 input
\* of the image examples
MaxDim == 4

\* spatial sizes of the input_shape argument of compute_output
ShapeDims == (1..MaxDim) \cup {28}

\* spatial sizes of the filter_size argument of compute_output
FilterDims == 1..3

\* spatial entries of the stride argument of compute_output
StrideDims == 1..2

\* layer_type arguments: the three contractive kinds and an expansive one
LayerTypes == {0, 1, 2, 4}

NoSnap == [kind |-> "none", before |-> <<>>, pos |-> 0, ret |-> "None"]

-----------------------------------------------------------------------------
(* Sequence helpers: positions are 0-based, as in the source *)

InsertAt(s, i, x) == SubSeq(s, 1, i) \o <<x>> \o SubSeq(s, i + 1, Len(s))

DeleteAt(s, i) == SubSeq(s, 1, i) \o SubSeq(s, i + 2, Len(s))

SetAt(s, i, x) == [s EXCEPT ![i + 1] = x]

\* numpy.insert(arr, i, x) with a scalar index raises IndexError outside [-len, len]
NpInsertOk(s, i) == i >= -Len(s) /\ i <= Len(s)

NpInsert(s, i, x) == InsertAt(s, IF i < 0 THEN i + Len(s) ELSE i, x)

\* numpy.delete(arr, i) with a scalar index raises IndexError outside [-len, len)
NpDeleteOk(s, i) == i >= -Len(s) /\ i < Len(s)

NpDelete(s, i) == DeleteAt(s, IF i < 0 THEN i + Len(s) ELSE i)

\* list.insert(i, x) never raises: the position is clamped to [0, len]
ListInsert(s, i, x) ==
    LET j == IF i < 0 THEN i + Len(s) ELSE i
        k == IF j < 0 THEN 0 ELSE IF j > Len(s) THEN Len(s) ELSE j
    IN  InsertAt(s, k, x)

\* list.pop(i) and list[i] raise IndexError outside [-len, len)
ListIndexOk(s, i) == i >= -Len(s) /\ i < Len(s)

ListIndex(s, i) == IF i < 0 THEN i + Len(s) ELSE i

ListPop(s, i) == DeleteAt(s, ListIndex(s, i))

ListSet(s, i, x) == SetAt(s, ListIndex(s, i), x)

\* all sequences over S of length n
SeqsOf(S, n) == [1..n -> S]

Done(self, r) == [d |-> self, ret |-> r]

Min(a, b) == IF a <= b THEN a ELSE b

Max(a, b) == IF a >= b THEN a ELSE b

\* n copies of x; a non-positive n gives the empty list, as [x]*n does
Repeat(x, n) == [k \in 1..Max(n, 0) |-> x]

\* a Python list or a numpy array holding the integers v
PyList(v) == [rep |-> "list", v |-> v]

NdArray(v) == [rep |-> "ndarray", v |-> v]

Raised == [rep |-> "raise", v |-> <<>>]

\* a + b in Python: two lists concatenate; when one operand is an ndarray the
\* sum is numpy's element-wise addition with broadcasting of a length-1 operand,
\* and ValueError when the lengths cannot be broadcast together
PyAdd(a, b) ==
    IF a.rep = "raise" \/ b.rep = "raise" THEN Raised
    ELSE IF a.rep = "list" /\ b.rep = "list" THEN PyList(a.v \o b.v)
    ELSE IF Len(a.v) = Len(b.v) THEN NdArray([k \in 1..Len(a.v) |-> a.v[k] + b.v[k]])
    ELSE IF Len(a.v) = 1 THEN NdArray([k \in 1..Len(b.v) |-> a.v[1] + b.v[k]])
    ELSE IF Len(b.v) = 1 THEN NdArray([k \in 1..Len(a.v) |-> a.v[k] + b.v[1]])
    ELSE Raised

-----------------------------------------------------------------------------
(* MLPDescriptor *)

\* NetworkDescriptor.__init__ / MLPDescriptor.__init__ with their defaults;
\* dims, init_functions and act_functions are None until random_init
MLPDescriptor ==
    [kind |-> "MLP", number_hidden_layers |-> 1, input_dim |-> 1, output_dim |-> 1,
     dims |-> <<>>, dims_rep |-> "None",
     init_functions |-> <<>>, act_functions |-> <<>>,
     dropout |-> FALSE, dropout_probs |-> <<>>, batch_norm |-> FALSE]

\* MLPDescriptor.add_layer: returns None; numpy.insert turns dims into an ndarray
MLP_add_layer(self, layer_pos, lay_dims, init_w_function, init_a_function, drop_prob) ==
    IF layer_pos < 0 \/ layer_pos >= self.number_hidden_layers THEN Done(self, "None")
    ELSE IF ~NpInsertOk(self.dims, layer_pos) THEN Done(self, "raise")
    ELSE LET d1 == [self EXCEPT !.dims = NpInsert(@, layer_pos, lay_dims),
                                !.dims_rep = "ndarray"]
         IN  IF ~NpInsertOk(d1.init_functions, layer_pos) THEN Done(d1, "raise")
    ELSE LET d2 == [d1 EXCEPT !.init_functions = NpInsert(@, layer_pos, init_w_function)]
         IN  IF ~NpInsertOk(d2.act_functions, layer_pos) THEN Done(d2, "raise")
    ELSE LET d3 == [d2 EXCEPT !.act_functions = NpInsert(@, layer_pos, init_a_function),
                              !.number_hidden_layers = @ + 1]
         IN  IF ~NpInsertOk(d3.dropout_probs, layer_pos) THEN Done(d3, "raise")
    ELSE Done([d3 EXCEPT !.dropout_probs = NpInsert(@, layer_pos, drop_prob)], "None")

\* remove_layer that forgets the entry of act_functions
MLP_remove_layer_keeps_act(self, layer_pos) ==
    IF layer_pos <= 1 \/ layer_pos > self.number_hidden_layers THEN Done(self, "None")
    ELSE IF ~NpDeleteOk(self.dims, layer_pos) THEN Done(self, "raise")
    ELSE LET d1 == [self EXCEPT !.dims = NpDelete(@, layer_pos), !.dims_rep = "ndarray"]
         IN  IF ~NpDeleteOk(d1.init_functions, layer_pos) THEN Done(d1, "raise")
    ELSE LET d2 == [d1 EXCEPT !.init_functions = NpDelete(@, layer_pos)]
         IN  IF ~NpDeleteOk(d2.dropout_probs, layer_pos) THEN Done(d2, "raise")
    ELSE Done([d2 EXCEPT !.dropout_probs = NpDelete(@, layer_pos),
                         !.number_hidden_layers = @ - 1], "None")

\* remove_layer whose guard protects position 0 only
MLP_remove_layer_from_one(self, layer_pos) ==
    IF layer_pos <= 0 \/ layer_pos > self.number_hidden_layers THEN Done(self, "None")
    ELSE IF ~NpDeleteOk(self.dims, layer_pos) THEN Done(self, "raise")
    ELSE LET d1 == [self EXCEPT !.dims = NpDelete(@, layer_pos), !.dims_rep = "ndarray"]
         IN  IF ~NpDeleteOk(d1.init_functions, layer_pos) THEN Done(d1, "raise")
    ELSE LET d2 == [d1 EXCEPT !.init_functions = NpDelete(@, layer_pos)]
         IN  IF ~NpDeleteOk(d2.act_functions, layer_pos) THEN Done(d2, "raise")
    ELSE LET d3 == [d2 EXCEPT !.act_functions = NpDelete(@, layer_pos)]
         IN  IF ~NpDeleteOk(d3.dropout_probs, layer_pos) THEN Done(d3, "raise")
    ELSE Done([d3 EXCEPT !.dropout_probs = NpDelete(@, layer_pos),
                         !.number_hidden_layers = @ - 1], "None")

\* MLPDescriptor.remove_layer: returns None
MLP_remove_layer(self, layer_pos) ==
    IF layer_pos <= 1 \/ layer_pos > self.number_hidden_layers THEN Done(self, "None")
    ELSE IF ~NpDeleteOk(self.dims, layer_pos) THEN Done(self, "raise")
    ELSE LET d1 == [self EXCEPT !.dims = NpDelete(@, layer_pos), !.dims_rep = "ndarray"]
         IN  IF ~NpDeleteOk(d1.init_functions, layer_pos) THEN Done(d1, "raise")
    ELSE LET d2 == [d1 EXCEPT !.init_functions = NpDelete(@, layer_pos)]
         IN  IF ~NpDeleteOk(d2.act_functions, layer_pos) THEN Done(d2, "raise")
    ELSE LET d3 == [d2 EXCEPT !.act_functions = NpDelete(@, layer_pos)]
         IN  IF ~NpDeleteOk(d3.dropout_probs, layer_pos) THEN Done(d3, "raise")
    ELSE Done([d3 EXCEPT !.dropout_probs = NpDelete(@, layer_pos),
                         !.number_hidden_layers = @ - 1], "None")

\* MLPDescriptor.change_layer_dimension, for the index layer_pos it drew
MLP_change_layer_dimension(self, layer_pos, new_dim) ==
    IF ~ListIndexOk(self.dims, layer_pos) THEN Done(self, "raise")
    ELSE Done([self EXCEPT !.dims = ListSet(@, layer_pos, new_dim)], "None")

\* NetworkDescriptor.change_activation (inherited by MLPDescriptor and ConvDescriptor)
change_activation(self, layer_pos, new_act_fn) ==
    IF layer_pos < 0 \/ layer_pos > self.number_hidden_layers THEN Done(self, "None")
    ELSE IF ~ListIndexOk(self.act_functions, layer_pos) THEN Done(self, "raise")
    ELSE Done([self EXCEPT !.act_functions = ListSet(@, layer_pos, new_act_fn)], "None")

\* NetworkDescriptor.change_weight_init (inherited by MLPDescriptor and ConvDescriptor)
change_weight_init(self, layer_pos, new_weight_fn) ==
    IF layer_pos < 0 \/ layer_pos > self.number_hidden_layers THEN Done(self, "None")
    ELSE IF ~ListIndexOk(self.init_functions, layer_pos) THEN Done(self, "raise")
    ELSE Done([self EXCEPT !.init_functions = ListSet(@, layer_pos, new_weight_fn)], "None")

\* NetworkDescriptor.change_dropout_prob, for the probabilities probs it drew
change_dropout_prob(self, probs) == Done([self EXCEPT !.dropout_probs = probs], "None")

\* the function catalogs of the module (activations, initializations), as the
\* identities of their entries in catalog order; activation 0 is None
activations == <<0, 1, 2>>

initializations == <<1, 2>>

\* list.index(x): the 0-based position of the first entry equal to x;
\* ValueError when there is none
PyIndexOk(l, x) == \E k \in 1..Len(l) : l[k] = x

PyIndex(l, x) == (CHOOSE k \in 1..Len(l) : l[k] = x /\ \A j \in 1..(k - 1) : l[j] # x) - 1

\* MLPDescriptor.codify_components
MLP_codify_components(self, max_hidden_layers, ref_list_init_functions, ref_list_act_functions) ==
    LET max_total_layers == max_hidden_layers + 1
        code0 == PyList(<<self.number_hidden_layers>>)
        dims  == [rep |-> self.dims_rep, v |-> self.dims]
        code1 == PyAdd(PyAdd(code0, dims),
                       PyList(Repeat(-1, max_total_layers - Len(self.dims))))
        okf   == \A k \in 1..Len(self.init_functions) :
                    PyIndexOk(ref_list_init_functions, self.init_functions[k])
        aux_f == [k \in 1..Len(self.init_functions) |->
                    PyIndex(ref_list_init_functions, self.init_functions[k])]
        code2 == PyAdd(PyAdd(code1, PyList(aux_f)),
                       PyList(Repeat(-1, max_total_layers - Len(aux_f))))
        oka   == \A k \in 1..Len(self.act_functions) :
                    PyIndexOk(ref_list_act_functions, self.act_functions[k])
        aux_a == [k \in 1..Len(self.act_functions) |->
                    PyIndex(ref_list_act_functions, self.act_functions[k])]
    IN  IF ~okf \/ code1.rep = "raise" THEN Raised
        ELSE IF ~oka \/ code2.rep = "raise" THEN Raised
        ELSE PyAdd(PyAdd(code2, PyList(aux_a)),
                   PyList(Repeat(-1, max_total_layers - Len(aux_a))))

-----------------------------------------------------------------------------
(* ShapeArithmetic *)

compute_output_no_border(input_shape, layer_type, filter_size, stride) ==
    IF layer_type < 3
    THEN <<Max((input_shape[1] - filter_size[1]) \div stride[1], 1),
           Max((input_shape[2] - filter_size[2]) \div stride[2], 1),
           filter_size[3]>>
    ELSE <<(input_shape[1] - 1) * stride[1] + filter_size[1],
           (input_shape[2] - 1) * stride[2] + filter_size[2]>>

compute_output_full_step(input_shape, layer_type, filter_size, stride) ==
    IF layer_type < 3
    THEN <<Max((input_shape[1] - filter_size[1] + 1) \div stride[1], 1),
           Max((input_shape[2] - filter_size[2] + 1) \div stride[2], 1),
           filter_size[3]>>
    ELSE <<input_shape[1] * stride[1] + filter_size[1],
           input_shape[2] * stride[2] + filter_size[2]>>

\* compute_output on integer triples: the contractive kinds (layer_type < 3)
\* return height, width and the filter's channel; the expansive kind returns
\* the two spatial sizes only
compute_output(input_shape, layer_type, filter_size, stride) ==
    IF layer_type < 3
    THEN <<Max((input_shape[1] - filter_size[1] + 1) \div stride[1], 1),
           Max((input_shape[2] - filter_size[2] + 1) \div stride[2], 1),
           filter_size[3]>>
    ELSE <<(input_shape[1] - 1) * stride[1] + filter_size[1],
           (input_shape[2] - 1) * stride[2] + filter_size[2]>>

\* One entry of filters / strides.  ConvDescriptor.random_init stores a tuple
\* (primary triple, companion pooling triple or None); add_layer and the
\* TConvDescriptor store one triple.  b = <<>> stands for None / no companion.
Pair(conv, pool) == [rep |-> "pair", a |-> conv, b |-> pool]

Triple(v) == [rep |-> "triple", a |-> v, b |-> <<>>]

\* compute_output(shape, 0, entry, ...) on a stored entry: numpy cannot subtract
\* the first two members of a (triple, triple-or-None) tuple from a shape, so a
\* paired entry raises; a single triple is indexed as the code intends
ComputeRaises(filter_entry) == filter_entry.rep = "pair"

RECURSIVE Prod(_)
Prod(s) == IF s = <<>> THEN 1 ELSE Head(s) * Prod(Tail(s))

-----------------------------------------------------------------------------
(* ConvDescriptor *)

\* ConvDescriptor.__init__ with its default arguments (all tuples)
ConvDescriptorDefault ==
    [kind |-> "Conv", number_hidden_layers |-> 2,
     input_dim |-> <<28, 28, 3>>, output_dim |-> <<7, 7, 1>>,
     layers |-> <<0, 1>>,
     filters |-> <<Triple(<<3, 3, 2>>), Triple(<<3, 3, 2>>)>>,
     strides |-> <<Triple(<<1, 1, 1>>), Triple(<<1, 1, 1>>)>>,
     init_functions |-> <<0, 0>>, act_functions |-> <<0, 0>>,
     dropout |-> FALSE, dropout_probs |-> <<>>, batch_norm |-> FALSE,
     shapes |-> <<>>]

\* ConvDescriptor.__init__ called with an explicit genome (lists of triples)
ConvDescriptor(number_hidden_layers, input_dim, output_dim, op_type, filters, strides, list_init_functions, list_act_functions) ==
    [kind |-> "Conv", number_hidden_layers |-> number_hidden_layers,
     input_dim |-> input_dim, output_dim |-> output_dim,
     layers |-> op_type, filters |-> filters, strides |-> strides,
     init_functions |-> list_init_functions, act_functions |-> list_act_functions,
     dropout |-> FALSE, dropout_probs |-> <<>>, batch_norm |-> FALSE,
     shapes |-> <<>>]

\* the test of random_init on a candidate shape: "small" when the blob is too
\* small, "ok" when it is kept, "raise" when np.prod(shape) < output_dim compares
\* with a sequence of several numbers, whose truth value numpy refuses to give
BlobCheck(shape, output_dim) ==
    IF shape[1] < 2 \/ shape[2] < 2 THEN "small"
    ELSE IF Len(output_dim) > 1 THEN "raise"
    ELSE IF Prod(shape) < output_dim[1] THEN "small"
    ELSE "ok"

\* the loop of reset_shapes from layer lay on: the shapes appended before the
\* loop ends or an entry raises (a paired entry, or an index past the lists)
RECURSIVE Conv_shapes_from(_, _, _, _)
Conv_shapes_from(self, lay, shape, acc) ==
    IF lay >= self.number_hidden_layers THEN [shapes |-> acc, ret |-> "None"]
    ELSE IF lay >= Len(self.filters) \/ ComputeRaises(self.filters[lay + 1])
         THEN [shapes |-> acc, ret |-> "raise"]
    ELSE IF lay >= Len(self.strides) THEN [shapes |-> acc, ret |-> "raise"]
    ELSE LET sh == compute_output(shape, 0, self.filters[lay + 1].a, self.strides[lay + 1].a)
         IN  Conv_shapes_from(self, lay + 1, sh, Append(acc, sh))

\* ConvDescriptor.reset_shapes
Conv_reset_shapes(self) ==
    LET r == Conv_shapes_from(self, 0, self.input_dim, <<>>)
    IN  Done([self EXCEPT !.shapes = r.shapes], r.ret)

\* ConvDescriptor.add_layer, for the channel count ch that np.random.randint drew;
\* lay_params = <<stride, filter size, activation, initializer>>
Conv_add_layer(self, layer_pos, lay_type, lay_params, ch) ==
    LET d1 == [self EXCEPT !.layers = ListInsert(@, layer_pos, lay_type)]
    IN  IF d1.shapes = <<>> THEN Done(d1, "raise")
        ELSE IF d1.shapes[Len(d1.shapes)][1] > 2 /\ d1.shapes[Len(d1.shapes)][2] > 2
        THEN LET d2 == [d1 EXCEPT !.number_hidden_layers = @ + 1]
                 d3 == IF lay_type < 2
                       THEN [d2 EXCEPT
                               !.filters = ListInsert(@, layer_pos,
                                   Triple(<<lay_params[2], lay_params[2], 1>>)),
                               !.act_functions = ListInsert(@, layer_pos, 0),
                               !.init_functions = ListInsert(@, layer_pos, NoneFn),
                               !.strides = ListInsert(@, layer_pos,
                                   Triple(<<lay_params[1], lay_params[1], 1>>))]
                       ELSE IF lay_type = 2
                       THEN [d2 EXCEPT
                               !.strides = ListInsert(@, layer_pos,
                                   Triple(<<lay_params[1], lay_params[1], 1>>)),
                               !.filters = ListInsert(@, layer_pos,
                                   Triple(<<lay_params[2], lay_params[2], ch>>)),
                               !.act_functions = ListInsert(@, layer_pos, lay_params[3]),
                               !.init_functions = ListInsert(@, layer_pos, lay_params[4])]
                       ELSE d2
                 r  == Conv_reset_shapes(d3)
             IN  Done(r.d, IF r.ret = "raise" THEN "raise" ELSE "0")
        ELSE Done(d1, "1")

\* ConvDescriptor.remove_layer: returns None
Conv_remove_layer(self, layer_pos) ==
    IF ~ListIndexOk(self.filters, layer_pos) THEN Done(self, "raise")
    ELSE LET d1 == [self EXCEPT !.filters = ListPop(@, layer_pos)]
         IN  IF ~ListIndexOk(d1.act_functions, layer_pos) THEN Done(d1, "raise")
    ELSE LET d2 == [d1 EXCEPT !.act_functions = ListPop(@, layer_pos)]
         IN  IF ~ListIndexOk(d2.init_functions, layer_pos) THEN Done(d2, "raise")
    ELSE LET d3 == [d2 EXCEPT !.init_functions = ListPop(@, layer_pos)]
         IN  IF ~ListIndexOk(d3.strides, layer_pos) THEN Done(d3, "raise")
    ELSE Conv_reset_shapes([d3 EXCEPT !.strides = ListPop(@, layer_pos),
                                      !.number_hidden_layers = @ - 1])

\* remove_random_layer that lets the last remaining layer go
Conv_remove_random_layer_no_floor(self, layer_pos) ==
    IF self.number_hidden_layers > 0
    THEN LET r == Conv_remove_layer(self, layer_pos)
         IN  Done(r.d, IF r.ret = "raise" THEN "raise" ELSE "0")
    ELSE Done(self, "-1")

\* ConvDescriptor.remove_random_layer, for the index layer_pos it drew
Conv_remove_random_layer(self, layer_pos) ==
    IF self.number_hidden_layers > 1
    THEN LET r == Conv_remove_layer(self, layer_pos)
         IN  Done(r.d, IF r.ret = "raise" THEN "raise" ELSE "0")
    ELSE Done(self, "-1")

\* ConvDescriptor.change_filters: three item assignments into filters[layer_pos],
\* then reset_shapes.  An entry stored by random_init is a tuple, which does not
\* support item assignment (TypeError); an index outside the list is IndexError
Conv_change_filters(self, layer_pos, new_kernel_size, new_channel) ==
    IF ~ListIndexOk(self.filters, layer_pos) THEN Done(self, "raise")
    ELSE IF self.filters[ListIndex(self.filters, layer_pos) + 1].rep = "pair" THEN Done(self, "raise")
    ELSE Conv_reset_shapes([self EXCEPT !.filters = ListSet(@, layer_pos,
                                Triple(<<new_kernel_size, new_kernel_size, new_channel>>))])

\* ConvDescriptor.change_stride: two item assignments into strides[layer_pos]
\* (the third member stays), then reset_shapes
Conv_change_stride(self, layer_pos, new_stride) ==
    IF ~ListIndexOk(self.strides, layer_pos) THEN Done(self, "raise")
    ELSE IF self.strides[ListIndex(self.strides, layer_pos) + 1].rep = "pair" THEN Done(self, "raise")
    ELSE LET old == self.strides[ListIndex(self.strides, layer_pos) + 1].a
         IN  Conv_reset_shapes([self EXCEPT !.strides = ListSet(@, layer_pos,
                                    Triple(<<new_stride, new_stride, old[3]>>))])

-----------------------------------------------------------------------------
(* TConvDescriptor *)

\* TConvDescriptor.__init__ with its default arguments (all tuples)
TConvDescriptorDefault ==
    [kind |-> "TConv", number_hidden_layers |-> 2,
     input_dim |-> <<7, 7, 50>>, output_dim |-> <<28, 28, 3>>,
     filters |-> <<Triple(<<3, 3, 2>>), Triple(<<3, 3, 2>>)>>,
     strides |-> <<Triple(<<1, 1, 1>>), Triple(<<1, 1, 1>>)>>,
     init_functions |-> <<0, 0>>, act_functions |-> <<0, 0>>,
     dropout |-> FALSE, dropout_probs |-> <<>>, batch_norm |-> FALSE,
     output_shapes |-> <<>>]

\* the loop of TConvDescriptor.reset_shapes from layer lay on
RECURSIVE TConv_shapes_from(_, _, _, _)
TConv_shapes_from(self, lay, shape, acc) ==
    IF lay >= self.number_hidden_layers THEN [shapes |-> acc, ret |-> "None"]
    ELSE IF lay >= Len(self.filters) \/ lay >= Len(self.strides)
         THEN [shapes |-> acc, ret |-> "raise"]
    ELSE LET sh == compute_output(shape, 4, self.filters[lay + 1].a, self.strides[lay + 1].a)
         IN  TConv_shapes_from(self, lay + 1, sh,
                 Append(acc, <<-1>> \o sh \o <<self.filters[lay + 1].a[3]>>))

\* TConvDescriptor.reset_shapes
TConv_reset_shapes(self) ==
    LET r == TConv_shapes_from(self, 0, self.input_dim, <<>>)
    IN  Done([self EXCEPT !.output_shapes = r.shapes], r.ret)

\* TConvDescriptor.add_layer, for the channel count ch that np.random.randint drew
TConv_add_layer(self, layer_pos, lay_params, ch) ==
    LET d1 == [self EXCEPT
                 !.number_hidden_layers = @ + 1,
                 !.strides = ListInsert(@, layer_pos,
                     Triple(<<lay_params[1], lay_params[1], 1>>)),
                 !.filters = ListInsert(@, layer_pos,
                     Triple(<<lay_params[2], lay_params[2], ch>>)),
                 !.act_functions = ListInsert(@, layer_pos, lay_params[3]),
                 !.init_functions = ListInsert(@, layer_pos, lay_params[4])]
        r  == TConv_reset_shapes(d1)
    IN  Done(r.d, IF r.ret = "raise" THEN "raise" ELSE "0")

\* TConvDescriptor.remove_layer: returns None
TConv_remove_layer(self, layer_pos) ==
    IF ~ListIndexOk(self.filters, layer_pos) THEN Done(self, "raise")
    ELSE LET d1 == [self EXCEPT !.filters = ListPop(@, layer_pos)]
         IN  IF ~ListIndexOk(d1.act_functions, layer_pos) THEN Done(d1, "raise")
    ELSE LET d2 == [d1 EXCEPT !.act_functions = ListPop(@, layer_pos)]
         IN  IF ~ListIndexOk(d2.init_functions, layer_pos) THEN Done(d2, "raise")
    ELSE LET d3 == [d2 EXCEPT !.init_functions = ListPop(@, layer_pos)]
         IN  IF ~ListIndexOk(d3.strides, layer_pos) THEN Done(d3, "raise")
    ELSE TConv_reset_shapes([d3 EXCEPT !.strides = ListPop(@, layer_pos),
                                       !.number_hidden_layers = @ - 1])

\* the test of TConvDescriptor.remove_random_layer on one index:
\*   (output_shapes[-1][1] - 1) / strides[pos][0] - filters[pos][0] > output_dim[0]
\* The division is real division; with a positive stride the test is the same
\* as the integer comparison below.
TConv_deletable(self, layer_pos) ==
    /\ self.number_hidden_layers > 1
    /\ self.output_shapes[Len(self.output_shapes)][2] - 1
         > self.strides[layer_pos + 1].a[1]
             * (self.output_dim[1] + self.filters[layer_pos + 1].a[1])

\* TConvDescriptor.remove_random_layer, for the order of indices it drew
RECURSIVE TConv_remove_random_layer(_, _)
TConv_remove_random_layer(self, layers) ==
    IF layers = <<>> THEN Done(self, "-1")
    ELSE IF TConv_deletable(self, Head(layers))
    THEN LET r == TConv_remove_layer(self, Head(layers))
         IN  Done(r.d, IF r.ret = "raise" THEN "raise" ELSE "0")
    ELSE TConv_remove_random_layer(self, Tail(layers))

\* TConvDescriptor.change_activation: no bounds check
TConv_change_activation(self, layer_pos, new_act_fn) ==
    IF ~ListIndexOk(self.act_functions, layer_pos) THEN Done(self, "raise")
    ELSE Done([self EXCEPT !.act_functions = ListSet(@, layer_pos, new_act_fn)], "None")

\* TConvDescriptor.change_weight_init: no bounds check
TConv_change_weight_init(self, layer_pos, new_weight_fn) ==
    IF ~ListIndexOk(self.init_functions, layer_pos) THEN Done(self, "raise")
    ELSE Done([self EXCEPT !.init_functions = ListSet(@, layer_pos, new_weight_fn)], "None")

\* TConvDescriptor.change_filters: three item assignments into filters[layer_pos]
\* (an array stored by random_init or a list stored by add_layer), then reset_shapes
TConv_change_filters(self, layer_pos, new_kernel_size, new_channel) ==
    IF ~ListIndexOk(self.filters, layer_pos) THEN Done(self, "raise")
    ELSE TConv_reset_shapes([self EXCEPT !.filters = ListSet(@, layer_pos,
                                 Triple(<<new_kernel_size, new_kernel_size, new_channel>>))])

\* TConvDescriptor.change_stride: two item assignments into strides[layer_pos]
\* (the third member stays), then reset_shapes
TConv_change_stride(self, layer_pos, new_stride) ==
    IF ~ListIndexOk(self.strides, layer_pos) THEN Done(self, "raise")
    ELSE LET old == self.strides[ListIndex(self.strides, layer_pos) + 1].a
         IN  TConv_reset_shapes([self EXCEPT !.strides = ListSet(@, layer_pos,
                                     Triple(<<new_stride, new_stride, old[3]>>))])

-----------------------------------------------------------------------------
(* The calls a driver makes on the descriptor *)

NoCall == [op |-> "none", pos |-> 0, ret |-> "None", val |-> <<>>]

\* the effect of one completed call op(pos, val, ...) whose outcome is res
CallV(op, pos, val, res) ==
    /\ calls < MaxCalls
    /\ calls' = calls + 1
    /\ d' = res.d
    /\ pc' = IF res.ret = "raise" THEN "raised" ELSE pc
    /\ last' = [op |-> op, pos |-> pos, ret |-> res.ret, val |-> val]
    /\ snap' = IF op = "add_layer"
                 THEN [kind |-> "snap", before |-> d, pos |-> pos, ret |-> res.ret]
               ELSE IF op = "remove_layer" /\ last.op = "add_layer" /\ last.pos = pos
                 THEN snap
               ELSE NoSnap
    /\ UNCHANGED loc

Call(op, pos, res) == CallV(op, pos, <<>>, res)

\* positions a driver passes: one before the first layer to one past the output layer
Positions == -1..(d.number_hidden_layers + 1)

MLPRandomInit ==
    /\ pc = "fresh" /\ d.kind = "MLP"
    /\ \E n \in 1..loc.nlayers :
       \E dm \in SeqsOf(5..loc.max_layer_size, n),
          fi \in SeqsOf(InitChoices, n + 1),
          fa \in SeqsOf(ActChoices, n + 1),
          bn \in (IF loc.no_batch THEN {d.batch_norm} ELSE BOOLEAN),
          dr \in (IF loc.no_drop THEN {d.dropout} ELSE BOOLEAN),
          dp \in (IF loc.no_drop THEN {d.dropout_probs} ELSE SeqsOf(ProbChoices, n + 1)) :
            d' = [d EXCEPT !.input_dim = Prod(loc.input_size),
                           !.output_dim = Prod(loc.output_size),
                           !.number_hidden_layers = n,
                           !.dims = dm, !.dims_rep = "list",
                           !.init_functions = fi, !.act_functions = fa,
                           !.batch_norm = bn, !.dropout = dr, !.dropout_probs = dp]
    /\ pc' = "ready"
    /\ last' = [op |-> "random_init", pos |-> 0, ret |-> "None", val |-> <<>>]
    /\ snap' = NoSnap
    /\ UNCHANGED <<loc, calls>>

MLPAddLayer ==
    /\ pc = "ready" /\ d.kind = "MLP"
    /\ \E pos \in Positions, w \in AddInit, a \in AddAct :
          Call("add_layer", pos, MLP_add_layer(d, pos, AddDim, w, a, AddProb))

MLPRemoveLayer ==
    /\ pc = "ready" /\ d.kind = "MLP"
    /\ \E pos \in Positions : Call("remove_layer", pos, MLP_remove_layer(d, pos))

\* NetworkDescriptor.remove_random_layer, inherited: returns None
MLPRemoveRandomLayer ==
    /\ pc = "ready" /\ d.kind = "MLP"
    /\ \E layer_pos \in 0..(d.number_hidden_layers - 1) :
          Call("remove_random_layer", layer_pos, MLP_remove_layer(d, layer_pos))

MLPChangeLayerDimension ==
    /\ pc = "ready" /\ d.kind = "MLP"
    /\ \E layer_pos \in 0..(d.number_hidden_layers - 1) :
          Call("change_layer_dimension", layer_pos,
               MLP_change_layer_dimension(d, layer_pos, AddDim))

MLPChangeDropoutProb ==
    /\ pc = "ready" /\ d.kind = "MLP"
    /\ \E probs \in SeqsOf(ProbChoices, d.number_hidden_layers + 1) :
          Call("change_dropout_prob", 0, change_dropout_prob(d, probs))

MLPCodify ==
    /\ pc = "ready" /\ d.kind = "MLP"
    /\ calls < MaxCalls
    /\ calls' = calls + 1
    /\ LET code == MLP_codify_components(d, loc.nlayers, initializations, activations)
       IN  last' = [op |-> "codify_components", pos |-> loc.nlayers,
                    ret |-> code.rep, val |-> code.v]
    /\ pc' = IF last'.ret = "raise" THEN "raised" ELSE pc
    /\ snap' = NoSnap
    /\ UNCHANGED <<d, loc>>

\* change_activation / change_weight_init on an MLPDescriptor or a ConvDescriptor
ChangeActivation ==
    /\ pc = "ready" /\ d.kind \in {"MLP", "Conv"}
    /\ \E pos \in Positions, fn \in AddAct :
          CallV("change_activation", pos, <<fn>>, change_activation(d, pos, fn))

ChangeWeightInit ==
    /\ pc = "ready" /\ d.kind \in {"MLP", "Conv"}
    /\ \E pos \in Positions, fn \in AddInit :
          CallV("change_weight_init", pos, <<fn>>, change_weight_init(d, pos, fn))

-----------------------------------------------------------------------------
(* ConvDescriptor: the calls *)

\* ConvDescriptor.random_init up to the loop (lines 240-251)
ConvRandomInitEnter ==
    /\ pc = "fresh" /\ d.kind = "Conv"
    /\ \E n \in 1..loc.nlayers :
          d' = [d EXCEPT !.input_dim = loc.input_size, !.output_dim = loc.output_size,
                         !.number_hidden_layers = n,
                         !.init_functions = <<>>, !.act_functions = <<>>,
                         !.layers = <<>>, !.strides = <<>>, !.filters = <<>>]
    /\ loc' = [loc EXCEPT !.i = 0, !.shape = loc.input_size]
    /\ pc' = "init"
    /\ UNCHANGED <<last, calls, snap>>

\* one candidate layer of ConvDescriptor.random_init: the body of the while loop
Conv_random_init_layer(self, i, shape, kind, conv_strides, conv_filters, pool_strides, pool_filters, init_f, act_f) ==
    LET d1  == [self EXCEPT !.layers = Append(@, kind)]
        sh1 == compute_output(shape, 0, conv_filters, conv_strides)
        c1  == BlobCheck(sh1, self.output_dim)
        rej == [self EXCEPT !.number_hidden_layers = i]
        sh2 == IF kind # 2 THEN compute_output(sh1, 0, pool_filters, pool_strides) ELSE sh1
        c2  == IF kind # 2 THEN BlobCheck(sh2, self.output_dim) ELSE "ok"
        acc == [d1 EXCEPT
                  !.strides = Append(@, Pair(conv_strides,
                                             IF kind # 2 THEN pool_strides ELSE <<>>)),
                  !.filters = Append(@, Pair(conv_filters,
                                             IF kind # 2 THEN pool_filters ELSE <<>>)),
                  !.shapes = Append(@, sh2),
                  !.init_functions = Append(@, init_f),
                  !.act_functions = Append(@, act_f)]
    IN  IF c1 = "raise" THEN [d |-> d1, i |-> i, shape |-> sh1, ret |-> "raise"]
        ELSE IF c1 = "small" THEN [d |-> rej, i |-> i, shape |-> sh1, ret |-> "break"]
        ELSE IF c2 = "raise" THEN [d |-> d1, i |-> i, shape |-> sh2, ret |-> "raise"]
        ELSE IF c2 = "small" THEN [d |-> rej, i |-> i, shape |-> sh2, ret |-> "break"]
        ELSE [d |-> acc, i |-> i + 1, shape |-> sh2, ret |-> "next"]

ConvRandomInitLoop ==
    /\ pc = "init" /\ d.kind = "Conv"
    /\ loc.i < loc.nlayers
    /\ \E kind \in {0, 1, 2},
          cs \in 1..(loc.max_stride - 1), cf \in 2..(loc.max_filter - 1),
          cc \in ChanChoices,
          ps \in 1..(loc.max_stride - 1), pf \in 2..(loc.max_filter - 1),
          pch \in ChanChoices,
          init_f \in InitChoices, act_f \in ActChoices :
          \* the pooling draws are made only when the kind has a companion
          /\ kind = 2 => (ps = 1 /\ pf = 2 /\ pch = cc)
          /\ LET r == Conv_random_init_layer(d, loc.i, loc.shape, kind,
                          <<cs, cs, 1>>, <<cf, cf, cc>>, <<ps, ps, 1>>, <<pf, pf, pch>>,
                          init_f, act_f)
             IN  /\ d' = r.d
                 /\ loc' = [loc EXCEPT !.i = r.i, !.shape = r.shape]
                 /\ pc' = CASE r.ret = "raise" -> "raised"
                            [] r.ret = "break" -> "tail"
                            [] OTHER -> "init"
    /\ UNCHANGED <<last, calls, snap>>

\* the end of random_init (Conv and TConv): the loop is over, batch_norm is drawn
RandomInitTail ==
    /\ d.kind \in {"Conv", "TConv"}
    /\ \/ pc = "tail"
       \/ pc = "init" /\ d.kind = "Conv" /\ loc.i >= loc.nlayers
       \/ pc = "init" /\ d.kind = "TConv" /\ loc.i >= MaxAttempts
    /\ \E bn \in (IF loc.no_batch THEN {d.batch_norm} ELSE BOOLEAN) :
          d' = [d EXCEPT !.batch_norm = bn]
    /\ pc' = "ready"
    /\ last' = [op |-> "random_init", pos |-> 0, ret |-> "None", val |-> <<>>]
    /\ UNCHANGED <<loc, calls, snap>>

\* reset_shapes called by the driver (on a descriptor built from an explicit
\* genome it is the call that fills the shape cache)
ConvResetShapes ==
    /\ pc \in {"built", "ready"} /\ d.kind = "Conv"
    /\ calls < MaxCalls
    /\ LET r == Conv_reset_shapes(d)
       IN  /\ d' = r.d
           /\ pc' = IF r.ret = "raise" THEN "raised" ELSE "ready"
           /\ last' = [op |-> "reset_shapes", pos |-> 0, ret |-> r.ret, val |-> <<>>]
    /\ calls' = IF pc = "ready" THEN calls + 1 ELSE calls
    /\ snap' = NoSnap
    /\ UNCHANGED loc

ConvAddLayer ==
    /\ pc = "ready" /\ d.kind = "Conv"
    /\ \E pos \in Positions, lay_type \in {0, 1, 2}, lay_params \in AddParams,
          ch \in AddChannels :
          /\ lay_type < 2 => ch = 0
          /\ Call("add_layer", pos, Conv_add_layer(d, pos, lay_type, lay_params, ch))

ConvRemoveLayer ==
    /\ pc = "ready" /\ d.kind = "Conv"
    /\ \E pos \in Positions : Call("remove_layer", pos, Conv_remove_layer(d, pos))

ConvRemoveRandomLayer ==
    /\ pc = "ready" /\ d.kind = "Conv"
    /\ IF d.number_hidden_layers > 1 /\ d.filters = <<>>
       THEN \* np.random.randint(0) raises ValueError
            Call("remove_random_layer", 0, Done(d, "raise"))
       ELSE \E layer_pos \in 0..Max(Len(d.filters) - 1, 0) :
               Call("remove_random_layer", layer_pos, Conv_remove_random_layer(d, layer_pos))

ConvChangeFilters ==
    /\ pc = "ready" /\ d.kind = "Conv"
    /\ \E pos \in Positions, k \in NewKernels, c \in NewChannels :
          CallV("change_filters", pos, <<k, c>>, Conv_change_filters(d, pos, k, c))

ConvChangeStride ==
    /\ pc = "ready" /\ d.kind = "Conv"
    /\ \E pos \in Positions, st \in NewStrides :
          CallV("change_stride", pos, <<st>>, Conv_change_stride(d, pos, st))

-----------------------------------------------------------------------------
(* TConvDescriptor: the calls *)

\* TConvDescriptor.random_init up to the loop (lines 426-435)
TConvRandomInitEnter ==
    /\ pc = "fresh" /\ d.kind = "TConv"
    /\ d' = [d EXCEPT !.input_dim = loc.input_size, !.output_dim = loc.output_size,
                      !.strides = <<>>, !.filters = <<>>,
                      !.init_functions = <<>>, !.act_functions = <<>>]
    /\ loc' = [loc EXCEPT !.i = 0, !.shape = <<-1>> \o loc.input_size]
    /\ pc' = "init"
    /\ UNCHANGED <<last, calls, snap>>

\* a loop body that stops at the target size but keeps the channel it drew
TConv_random_init_layer_keeps_channel(self, i, shape, stride, filter, init_f, act_f) ==
    LET sh  == <<-1>> \o compute_output(Tail(shape), 4, filter, stride) \o <<filter[3]>>
        d1  == [self EXCEPT !.strides = Append(@, Triple(stride)),
                            !.filters = Append(@, Triple(filter)),
                            !.output_shapes = Append(@, sh),
                            !.init_functions = Append(@, init_f),
                            !.act_functions = Append(@, act_f)]
    IN  IF sh[2] >= self.output_dim[1] /\ sh[3] >= self.output_dim[2]
        THEN [d |-> [d1 EXCEPT !.number_hidden_layers = i + 1],
              i |-> i, shape |-> sh, ret |-> "break"]
        ELSE [d |-> d1, i |-> i + 1, shape |-> sh, ret |-> "next"]

\* one attempt of TConvDescriptor.random_init: the body of the for loop
TConv_random_init_layer(self, i, shape, stride, filter, init_f, act_f) ==
    LET sh  == <<-1>> \o compute_output(Tail(shape), 4, filter, stride) \o <<filter[3]>>
        d1  == [self EXCEPT !.strides = Append(@, Triple(stride)),
                            !.filters = Append(@, Triple(filter)),
                            !.output_shapes = Append(@, sh),
                            !.init_functions = Append(@, init_f),
                            !.act_functions = Append(@, act_f)]
        n   == Len(d1.filters)
        shf == [sh EXCEPT ![Len(sh)] = self.output_dim[3]]
    IN  IF sh[2] >= self.output_dim[1] /\ sh[3] >= self.output_dim[2]
        THEN [d |-> [d1 EXCEPT !.filters[n].a[3] = self.output_dim[3],
                               !.output_shapes[Len(d1.output_shapes)] = shf,
                               !.number_hidden_layers = i + 1],
              i |-> i, shape |-> shf, ret |-> "break"]
        ELSE [d |-> d1, i |-> i + 1, shape |-> sh, ret |-> "next"]

\* the for loop of TConvDescriptor.random_init: range(300) runs out, or one
\* more attempt is made
TConvRandomInitLoop ==
    /\ pc = "init" /\ d.kind = "TConv"
    /\ IF loc.i >= MaxAttempts
       THEN /\ pc' = "tail"
            /\ UNCHANGED <<d, loc>>
       ELSE \E s \in 1..(loc.max_stride - 1), f \in 2..(loc.max_filter - 1),
               c \in ChanChoices, init_f \in InitChoices, act_f \in ActChoices :
               LET r == TConv_random_init_layer(d, loc.i, loc.shape,
                                                <<s, s, 1>>, <<f, f, c>>, init_f, act_f)
               IN  /\ d' = r.d
                   /\ loc' = [loc EXCEPT !.i = r.i, !.shape = r.shape]
                   /\ pc' = IF r.ret = "break" THEN "tail" ELSE "init"
    /\ UNCHANGED <<last, calls, snap>>

TConvAddLayer ==
    /\ pc = "ready" /\ d.kind = "TConv"
    /\ \E pos \in Positions, lay_params \in AddParams, ch \in AddChannels :
          Call("add_layer", pos, TConv_add_layer(d, pos, lay_params, ch))

TConvRemoveLayer ==
    /\ pc = "ready" /\ d.kind = "TConv"
    /\ \E pos \in Positions : Call("remove_layer", pos, TConv_remove_layer(d, pos))

\* the order 0..n-1 with index p moved to the front
FrontOrder(n, p) == <<p>> \o SelectSeq([k \in 1..n |-> k - 1], LAMBDA x : x # p)

\* remove_random_layer examines the indices in a random order; which index it
\* removes depends only on the first index of the order that passes the test,
\* and every index is first in some order
TConvRemoveRandomLayer ==
    /\ pc = "ready" /\ d.kind = "TConv"
    /\ \E p \in 0..Max(Len(d.filters) - 1, 0) :
          Call("remove_random_layer", p,
               TConv_remove_random_layer(d,
                   IF d.filters = <<>> THEN <<>> ELSE FrontOrder(Len(d.filters), p)))

TConvChangeActivation ==
    /\ pc = "ready" /\ d.kind = "TConv"
    /\ \E pos \in Positions, fn \in AddAct :
          CallV("change_activation", pos, <<fn>>, TConv_change_activation(d, pos, fn))

TConvChangeWeightInit ==
    /\ pc = "ready" /\ d.kind = "TConv"
    /\ \E pos \in Positions, fn \in AddInit :
          CallV("change_weight_init", pos, <<fn>>, TConv_change_weight_init(d, pos, fn))

TConvChangeFilters ==
    /\ pc = "ready" /\ d.kind = "TConv"
    /\ \E pos \in Positions, k \in NewKernels, c \in NewChannels :
          CallV("change_filters", pos, <<k, c>>, TConv_change_filters(d, pos, k, c))

TConvChangeStride ==
    /\ pc = "ready" /\ d.kind = "TConv"
    /\ \E pos \in Positions, st \in NewStrides :
          CallV("change_stride", pos, <<st>>, TConv_change_stride(d, pos, st))

-----------------------------------------------------------------------------
(* Construction and the specifications *)

NoLoc == [input_size |-> <<>>, output_size |-> <<>>,
          nlayers |-> 0, max_layer_size |-> 0, max_stride |-> 0, max_filter |-> 0,
          no_drop |-> TRUE, no_batch |-> TRUE, i |-> 0, shape |-> <<>>]

\* a default MLPDescriptor and the arguments its random_init will get
InitMLP ==
    /\ pc = "fresh"
    /\ d = MLPDescriptor
    /\ \E no_drop \in BOOLEAN :
          loc = [NoLoc EXCEPT !.input_size = <<2, 2>>, !.output_size = <<3>>,
                              !.nlayers = NLayers, !.max_layer_size = MaxLayerSize,
                              !.no_drop = no_drop, !.no_batch = TRUE]

\* a default ConvDescriptor and the arguments its random_init will get
InitConv ==
    /\ pc = "fresh"
    /\ d = ConvDescriptorDefault
    /\ \E out \in {<<8>>, <<2, 2, 1>>} :
          loc = [NoLoc EXCEPT !.input_size = <<4, 4, 3>>, !.output_size = out,
                              !.nlayers = 2, !.max_stride = 3, !.max_filter = 3,
                              !.no_batch = FALSE]

\* a ConvDescriptor constructed with an explicit genome of two layers
InitConvGenome ==
    /\ pc = "built"
    /\ d = ConvDescriptor(2, <<6, 6, 3>>, <<8>>, <<2, 0>>,
                          <<Triple(<<2, 2, 4>>), Triple(<<2, 2, 1>>)>>,
                          <<Triple(<<1, 1, 1>>), Triple(<<1, 1, 1>>)>>,
                          <<1, NoneFn>>, <<1, 0>>)
    /\ loc = NoLoc

\* a default TConvDescriptor and the arguments its random_init will get
InitTConv ==
    /\ pc = "fresh"
    /\ d = TConvDescriptorDefault
    /\ \E out \in {<<9, 9, 3>>, <<2, 2, 3>>} :
          loc = [NoLoc EXCEPT !.input_size = <<1, 1, 4>>, !.output_size = out,
                              !.max_stride = 3, !.max_filter = 3, !.no_batch = TRUE]

Init ==
    /\ calls = 0
    /\ last = NoCall
    /\ snap = NoSnap
    /\ (InitMLP \/ InitConv \/ InitConvGenome \/ InitTConv)

Next ==
    \/ ConvRandomInitEnter
    \/ ConvRandomInitLoop
    \/ RandomInitTail
    \/ ConvResetShapes
    \/ ConvAddLayer
    \/ ConvRemoveLayer
    \/ ConvRemoveRandomLayer
    \/ ConvChangeFilters
    \/ ConvChangeStride
    \/ TConvRandomInitEnter
    \/ TConvRandomInitLoop
    \/ TConvAddLayer
    \/ TConvRemoveLayer
    \/ TConvRemoveRandomLayer
    \/ TConvChangeActivation
    \/ TConvChangeWeightInit
    \/ MLPRandomInit
    \/ MLPAddLayer
    \/ MLPRemoveLayer
    \/ MLPRemoveRandomLayer
    \/ MLPChangeLayerDimension
    \/ MLPChangeDropoutProb
    \/ MLPCodify
    \/ ChangeActivation
    \/ ChangeWeightInit

Spec == Init /\ [][Next]_vars

\* A default TConvDescriptor whose random_init gets input (7, 7, 50), target
\* output (28, 28, 3) and each of the bounds (max_stride, max_filter) in
\* {2, 3} x {3, 4}
InitT7 ==
    /\ calls = 0
    /\ last = NoCall
    /\ snap = NoSnap
    /\ pc = "fresh"
    /\ d = TConvDescriptorDefault
    /\ \E ms \in {2, 3}, mf \in {3, 4} :
          loc = [NoLoc EXCEPT !.input_size = <<7, 7, 50>>, !.output_size = <<28, 28, 3>>,
                              !.max_stride = ms, !.max_filter = mf, !.no_batch = TRUE]

NextT7 ==
    \/ TConvRandomInitEnter
    \/ TConvRandomInitLoop
    \/ RandomInitTail

SpecT7 == InitT7 /\ [][NextT7]_vars

\* A default TConvDescriptor whose random_init gets input (1, 1, 4), target
\* output (400, 400, 3) and the bounds max_stride = 2, max_filter = 3 that the
\* docstring names: every attempt draws stride 1 and filter size 2
InitT300 ==
    /\ calls = 0
    /\ last = NoCall
    /\ snap = NoSnap
    /\ pc = "fresh"
    /\ d = TConvDescriptorDefault
    /\ loc = [NoLoc EXCEPT !.input_size = <<1, 1, 4>>, !.output_size = <<400, 400, 3>>,
                           !.max_stride = 2, !.max_filter = 3, !.no_batch = TRUE]

NextT300 ==
    \/ TConvRandomInitEnter
    \/ TConvRandomInitLoop
    \/ RandomInitTail

SpecT300 == InitT300 /\ [][NextT300]_vars

\* A TConvDescriptor under random_init and the mutations of its layer
\* structure, filters and strides
InitTC ==
    /\ calls = 0
    /\ last = NoCall
    /\ snap = NoSnap
    /\ InitTConv

NextTC ==
    \/ TConvRandomInitEnter
    \/ TConvRandomInitLoop
    \/ RandomInitTail
    \/ TConvAddLayer
    \/ TConvRemoveLayer
    \/ TConvRemoveRandomLayer
    \/ TConvChangeFilters
    \/ TConvChangeStride

SpecTC == InitTC /\ [][NextTC]_vars

\* A call compute_output(input_shape, layer_type, filter_size, stride) about to
\* be made: d holds the four arguments
InitCO ==
    /\ calls = 0
    /\ last = NoCall
    /\ snap = NoSnap
    /\ loc = NoLoc
    /\ pc = "compute"
    /\ \E h \in ShapeDims, w \in ShapeDims, t \in LayerTypes, c \in ChanChoices \cup {1} :
       \E fh \in FilterDims, fw \in FilterDims, sh \in StrideDims, sw \in StrideDims :
          d = [kind |-> "compute_output", input_shape |-> <<h, w>>, layer_type |-> t,
               filter_size |-> <<fh, fw, c>>, stride |-> <<sh, sw, 1>>]

\* the call returns; last.val is the returned shape
ComputeOutput ==
    /\ pc = "compute"
    /\ pc' = "computed"
    /\ last' = [op |-> "compute_output", pos |-> d.layer_type, ret |-> "value",
                val |-> compute_output(d.input_shape, d.layer_type, d.filter_size, d.stride)]
    /\ UNCHANGED <<d, loc, calls, snap>>

NextCO == ComputeOutput

SpecCO == InitCO /\ [][NextCO]_vars

-----------------------------------------------------------------------------
(* The claims *)

ConvFields(x) ==
    <<x.layers, x.filters, x.strides, x.act_functions, x.init_functions,
      x.number_hidden_layers, x.shapes>>

MLPFields(x) ==
    <<x.dims, x.init_functions, x.act_functions, x.dropout_probs,
      x.number_hidden_layers>>

\* C1: when ConvDescriptor.add_layer(pos, ...) with 0 <= pos <=
\* number_hidden_layers fails (returns 1), every field of the descriptor has
\* the value it had before the call.
C1_FailedAddLayerLeavesState ==
    (d.kind = "Conv" /\ last.op = "add_layer" /\ last.ret = "1"
        /\ last.pos >= 0 /\ last.pos <= snap.before.number_hidden_layers)
        => ConvFields(d) = ConvFields(snap.before)

\* C2: on a genome produced by ConvDescriptor.random_init, reset_shapes
\* completes and leaves shapes equal to the cache random_init built.
C2_RecomputeEqualsIncremental ==
    [][ (pc = "ready" /\ d.kind = "Conv" /\ last.op = "random_init"
            /\ last'.op = "reset_shapes")
          => (last'.ret = "None" /\ d'.shapes = d.shapes) ]_vars

\* C3: on a ConvDescriptor, a successful add_layer(pos) with 0 <= pos <=
\* number_hidden_layers followed at once by remove_layer(pos) restores layers,
\* filters, strides, act_functions, init_functions, number_hidden_layers and
\* shapes.
C3_ConvAddRemoveRestores ==
    (d.kind = "Conv" /\ last.op = "remove_layer" /\ last.ret = "None"
        /\ snap.kind = "snap" /\ snap.ret = "0"
        /\ snap.pos >= 0 /\ snap.pos <= snap.before.number_hidden_layers)
        => ConvFields(d) = ConvFields(snap.before)

\* an MLPDescriptor on which add_layer(pos) with pos in [0, number_hidden_layers)
\* has returned, followed at once by remove_layer(pos)
MLPAddThenRemove ==
    /\ d.kind = "MLP" /\ last.op = "remove_layer"
    /\ snap.kind = "snap" /\ snap.ret = "None"
    /\ snap.pos >= 0 /\ snap.pos < snap.before.number_hidden_layers

CodeOk(code, self, max_hidden_layers) ==
    LET mt == max_hidden_layers + 1
        n  == self.number_hidden_layers
    IN  /\ Len(code) = 1 + 3 * mt
        /\ code[1] = n
        /\ \A k \in 1..mt :
              /\ code[1 + k] = IF k <= n THEN self.dims[k] ELSE -1
              /\ code[1 + mt + k] =
                    IF k <= n + 1 THEN PyIndex(initializations, self.init_functions[k]) ELSE -1
              /\ code[1 + 2 * mt + k] =
                    IF k <= n + 1 THEN PyIndex(activations, self.act_functions[k]) ELSE -1

\* C5: in every state reachable from random_init(max_layers) by add_layer,
\* remove_layer and change_layer_dimension calls, codify_components(max_layers)
\* returns a vector of length 1 + 3 * (max_layers + 1), padded with -1 beyond
\* the real layers.
C5_CodifyFixedLength ==
    [][ (pc = "ready" /\ d.kind = "MLP"
            /\ (calls = 0 \/ last.op \in {"add_layer", "remove_layer",
                                           "change_layer_dimension"})
            /\ calls' = calls + 1
            /\ last'.op = "codify_components")
          => (last'.ret # "raise" /\ CodeOk(last'.val, d, loc.nlayers)) ]_vars

\* C6: from a ConvDescriptor or TConvDescriptor with number_hidden_layers >= 1,
\* a remove_random_layer or add_layer call leaves number_hidden_layers >= 1,
\* and remove_random_layer called with number_hidden_layers = 1 returns -1 and
\* changes nothing.
C6_RemoveRandomKeepsOneLayer ==
    [][ (pc = "ready" /\ d.kind \in {"Conv", "TConv"} /\ d.number_hidden_layers >= 1
            /\ calls' = calls + 1
            /\ last'.op \in {"remove_random_layer", "add_layer"})
          => /\ d'.number_hidden_layers >= 1
             /\ (last'.op = "remove_random_layer" /\ d.number_hidden_layers = 1)
                   => (last'.ret = "-1" /\ d' = d) ]_vars

C6_Witness ==
    /\ d.kind = "Conv" /\ pc = "ready"
    /\ last.op = "remove_random_layer" /\ last.ret = "-1"
    /\ d.number_hidden_layers = 1
    /\ Len(d.filters) = 1

\* the last cached output shape reaches the target spatial size
TConvReachesTarget(self) ==
    /\ self.output_shapes # <<>>
    /\ self.output_shapes[Len(self.output_shapes)][2] >= self.output_dim[1]
    /\ self.output_shapes[Len(self.output_shapes)][3] >= self.output_dim[2]

\* C7: TConvDescriptor.random_init with input (7,7,k) and target (28,28,3)
\* leaves its loop before the 300 attempts are used up, and then the last
\* layer's channel is 3, the last cached shape is at least 28 x 28 and
\* number_hidden_layers is the number of layers generated.
C7_TConvInitReachesTarget ==
    /\ pc = "init" => loc.i < MaxAttempts
    /\ pc \in {"tail", "ready"} =>
          /\ loc.i < MaxAttempts
          /\ d.filters # <<>>
          /\ d.filters[Len(d.filters)].a[3] = 3
          /\ d.output_shapes[Len(d.output_shapes)][2] >= 28
          /\ d.output_shapes[Len(d.output_shapes)][3] >= 28
          /\ d.output_shapes[Len(d.output_shapes)][4] = 3
          /\ d.number_hidden_layers = Len(d.filters)
          /\ Len(d.output_shapes) = Len(d.filters)

C7_Witness ==
    /\ pc = "ready" /\ d.kind = "TConv"
    /\ d.input_dim = <<7, 7, 50>> /\ d.output_dim = <<28, 28, 3>>
    /\ loc.max_stride = 3 /\ loc.max_filter = 4
    /\ d.number_hidden_layers = 21

\* C8: from a TConvDescriptor that random_init and remove_random_layer calls
\* alone have produced, remove_random_layer leaves the last cached output
\* shape at least as large as the target, and leaves the state unchanged when
\* it returns -1.
C8_RemoveRandomKeepsTarget ==
    [][ (pc = "ready" /\ d.kind = "TConv" /\ TConvReachesTarget(d)
            /\ (calls = 0 \/ (calls = 1 /\ last.op = "remove_random_layer"))
            /\ calls' = calls + 1
            /\ last'.op = "remove_random_layer")
          => /\ TConvReachesTarget(d')
             /\ last'.ret = "-1" => d' = d ]_vars

\* C9: every add_layer and remove_random_layer call that returns, on every
\* descriptor kind, returns one of the statuses 0, 1, -1.
C9_StructuralOpsReturnStatus ==
    (last.op \in {"add_layer", "remove_random_layer"} /\ last.ret # "raise")
        => last.ret \in {"0", "1", "-1"}

\* C10: on every descriptor kind, change_activation(pos, fn) and
\* change_weight_init(pos, fn) raise nothing; with pos < 0 or
\* pos > number_hidden_layers they change nothing, otherwise they overwrite
\* exactly the entry at pos.
C10_ChangeFnBoundsChecked ==
    [][ (pc = "ready" /\ calls' = calls + 1
            /\ last'.op \in {"change_activation", "change_weight_init"})
          => /\ last'.ret = "None"
             /\ d' = IF last'.pos < 0 \/ last'.pos > d.number_hidden_layers THEN d
                     ELSE IF last'.op = "change_activation"
                     THEN [d EXCEPT !.act_functions[last'.pos + 1] = last'.val[1]]
                     ELSE [d EXCEPT !.init_functions[last'.pos + 1] = last'.val[1]] ]_vars

\* C11: MLPDescriptor.remove_layer(pos) changes nothing when pos <= 1 or
\* pos > number_hidden_layers; for every other pos, pos = number_hidden_layers
\* included, it returns after removing the entry at pos from dims,
\* init_functions, act_functions and dropout_probs and decrementing
\* number_hidden_layers.
C11_MLPRemoveLayerEffect ==
    [][ (pc = "ready" /\ d.kind = "MLP" /\ calls' = calls + 1
            /\ last'.op = "remove_layer")
          => IF last'.pos <= 1 \/ last'.pos > d.number_hidden_layers
             THEN last'.ret = "None" /\ MLPFields(d') = MLPFields(d)
             ELSE /\ last'.ret = "None"
                  /\ d'.dims = DeleteAt(d.dims, last'.pos)
                  /\ d'.init_functions = DeleteAt(d.init_functions, last'.pos)
                  /\ d'.act_functions = DeleteAt(d.act_functions, last'.pos)
                  /\ d'.dropout_probs = DeleteAt(d.dropout_probs, last'.pos)
                  /\ Len(d'.dims) = Len(d.dims) - 1
                  /\ d'.number_hidden_layers = d.number_hidden_layers - 1 ]_vars

\* C12: MLPDescriptor.add_layer(pos, ...) changes nothing when pos is outside
\* [0, number_hidden_layers); otherwise it returns after inserting one entry at
\* pos into each of dims, init_functions, act_functions and dropout_probs and
\* incrementing number_hidden_layers.
C12_MLPAddLayerEffect ==
    [][ (pc = "ready" /\ d.kind = "MLP" /\ calls' = calls + 1
            /\ last'.op = "add_layer")
          => IF last'.pos < 0 \/ last'.pos >= d.number_hidden_layers
             THEN last'.ret = "None" /\ MLPFields(d') = MLPFields(d)
             ELSE /\ last'.ret = "None"
                  /\ Len(d'.dims) = Len(d.dims) + 1
                  /\ DeleteAt(d'.dims, last'.pos) = d.dims
                  /\ Len(d'.init_functions) = Len(d.init_functions) + 1
                  /\ DeleteAt(d'.init_functions, last'.pos) = d.init_functions
                  /\ Len(d'.act_functions) = Len(d.act_functions) + 1
                  /\ DeleteAt(d'.act_functions, last'.pos) = d.act_functions
                  /\ Len(d'.dropout_probs) = Len(d.dropout_probs) + 1
                  /\ DeleteAt(d'.dropout_probs, last'.pos) = d.dropout_probs
                  /\ d'.number_hidden_layers = d.number_hidden_layers + 1 ]_vars

\* C13: ConvDescriptor.remove_layer(pos), 0 <= pos < number_hidden_layers,
\* returns after removing the entry at pos from layers, filters, strides,
\* act_functions and init_functions and decrementing number_hidden_layers, and
\* afterwards each of these sequences and shapes has number_hidden_layers
\* entries.
C13_ConvRemoveLayerEffect ==
    [][ (pc = "ready" /\ d.kind = "Conv" /\ calls' = calls + 1
            /\ last'.op = "remove_layer"
            /\ last'.pos >= 0 /\ last'.pos < d.number_hidden_layers
            /\ Len(d.layers) = d.number_hidden_layers
            /\ Len(d.filters) = d.number_hidden_layers)
          => /\ last'.ret = "None"
             /\ d'.layers = DeleteAt(d.layers, last'.pos)
             /\ d'.filters = DeleteAt(d.filters, last'.pos)
             /\ d'.strides = DeleteAt(d.strides, last'.pos)
             /\ d'.act_functions = DeleteAt(d.act_functions, last'.pos)
             /\ d'.init_functions = DeleteAt(d.init_functions, last'.pos)
             /\ d'.number_hidden_layers = d.number_hidden_layers - 1
             /\ Len(d'.layers) = d'.number_hidden_layers
             /\ Len(d'.shapes) = d'.number_hidden_layers ]_vars

\* C14: ConvDescriptor.random_init completes, and then every shape in shapes
\* has both spatial dimensions >= 2 and at least as many elements as the
\* volume of output_dim, and filters, strides, layers and shapes hold the
\* accepted layers only.
C14_ConvInitShapesFeasible ==
    (d.kind = "Conv" /\ loc.nlayers > 0 /\ calls = 0
        /\ last.op \in {"none", "random_init"})
        => /\ pc # "raised"
           /\ pc = "ready" =>
                 /\ \A k \in 1..Len(d.shapes) :
                       /\ d.shapes[k][1] >= 2
                       /\ d.shapes[k][2] >= 2
                       /\ Prod(d.shapes[k]) >= Prod(d.output_dim)
                 /\ Len(d.filters) = loc.i
                 /\ Len(d.strides) = loc.i
                 /\ Len(d.layers) = loc.i
                 /\ Len(d.shapes) = loc.i

\* C19: after ConvDescriptor.random_init on a fresh descriptor, filters,
\* strides, layers, shapes, act_functions and init_functions all have
\* number_hidden_layers entries, and number_hidden_layers <= nlayers.
C19_ConvInitLengthsAgree ==
    (d.kind = "Conv" /\ pc = "ready" /\ last.op = "random_init")
        => /\ Len(d.filters) = d.number_hidden_layers
           /\ Len(d.strides) = d.number_hidden_layers
           /\ Len(d.layers) = d.number_hidden_layers
           /\ Len(d.shapes) = d.number_hidden_layers
           /\ Len(d.act_functions) = d.number_hidden_layers
           /\ Len(d.init_functions) = d.number_hidden_layers
           /\ d.number_hidden_layers <= loc.nlayers

\* the floor of x / s for a positive s, given by its defining inequalities
IsFloor(q, x, s) == q * s <= x /\ x < (q + 1) * s

\* C15: for a contractive kind compute_output returns, per spatial dimension,
\* max(1, floor((input - filter + 1) / stride)) and the filter's channel
\* parameter as channel count, so (28, 28) with filter (3, 3, c) and stride
\* (1, 1) gives (26, 26); for the expansive kind it returns
\* (input - 1) * stride + filter per spatial dimension.
C15_ComputeOutputFormula ==
    (pc = "computed" /\ last.op = "compute_output")
        => IF d.layer_type < 3
           THEN /\ Len(last.val) = 3
                /\ \A k \in 1..2 :
                     \E q \in -3..28 :
                        /\ IsFloor(q, d.input_shape[k] - d.filter_size[k] + 1, d.stride[k])
                        /\ last.val[k] = IF q >= 1 THEN q ELSE 1
                /\ last.val[3] = d.filter_size[3]
                /\ (d.input_shape = <<28, 28>> /\ d.filter_size[1] = 3 /\ d.filter_size[2] = 3
                    /\ d.stride[1] = 1 /\ d.stride[2] = 1)
                      => (last.val[1] = 26 /\ last.val[2] = 26)
           ELSE /\ Len(last.val) = 2
                /\ \A k \in 1..2 :
                     last.val[k] = (d.input_shape[k] - 1) * d.stride[k] + d.filter_size[k]

C15_Witness ==
    /\ pc = "computed" /\ last.op = "compute_output" /\ d.layer_type < 3
    /\ d.input_shape = <<28, 28>>
    /\ d.filter_size[1] = 3 /\ d.filter_size[2] = 3
    /\ d.stride[1] = 1 /\ d.stride[2] = 1
    /\ last.val[1] = 26 /\ last.val[2] = 26

\* C16: with stride 1 and filter spatial size 1, compute_output returns the
\* spatial dimensions of its input, for the contractive kinds and the
\* expansive kind alike.
C16_UnitFilterKeepsShape ==
    (pc = "computed" /\ last.op = "compute_output"
     /\ d.filter_size[1] = 1 /\ d.filter_size[2] = 1
     /\ d.stride[1] = 1 /\ d.stride[2] = 1)
        => (last.val[1] = d.input_shape[1] /\ last.val[2] = d.input_shape[2])

C16_Witness ==
    /\ pc = "computed" /\ last.op = "compute_output" /\ d.layer_type >= 3
    /\ d.filter_size[1] = 1 /\ d.filter_size[2] = 1
    /\ d.stride[1] = 1 /\ d.stride[2] = 1
    /\ d.input_shape = <<2, 3>>
    /\ last.val = <<2, 3>>

\* the first n cached shapes as the fold of compute_output over
\* filters[0..n-1], strides[0..n-1] from input_shape
RECURSIVE FoldShapes(_, _, _, _)
FoldShapes(input_shape, filters, strides, n) ==
    IF n = 0 THEN <<>>
    ELSE LET prev == FoldShapes(input_shape, filters, strides, n - 1)
             from == IF n = 1 THEN input_shape ELSE prev[n - 1]
         IN  Append(prev, compute_output(from, 0, filters[n].a, strides[n].a))

\* C17: on a ConvDescriptor reachable from random_init, change_filters(pos,
\* kernel_size, channels) makes layer pos a square kernel of kernel_size with
\* that channel count, change_stride(pos, stride) sets both spatial strides at
\* pos and keeps the channel stride; every other layer's filters and strides,
\* the activation and initializer sequences and number_hidden_layers stay, and
\* shapes equals a full recompute.
C17_ConvChangeEntryEffect ==
    [][(/\ d.kind = "Conv" /\ pc = "ready" /\ loc.nlayers > 0
        /\ last'.op \in {"change_filters", "change_stride"} /\ calls' = calls + 1
        /\ last'.pos >= 0 /\ last'.pos < d.number_hidden_layers
        /\ last'.pos < Len(d.filters))
       => LET p == last'.pos + 1
          IN  /\ last'.ret = "None"
              /\ Len(d'.filters) = Len(d.filters) /\ Len(d'.strides) = Len(d.strides)
              /\ \A k \in 1..Len(d.filters) : k # p => d'.filters[k] = d.filters[k]
              /\ \A k \in 1..Len(d.strides) : k # p => d'.strides[k] = d.strides[k]
              /\ IF last'.op = "change_filters"
                 THEN /\ d'.filters[p].a = <<last'.val[1], last'.val[1], last'.val[2]>>
                      /\ d'.strides = d.strides
                 ELSE /\ d'.strides[p].a = <<last'.val[1], last'.val[1], d.strides[p].a[3]>>
                      /\ d'.filters = d.filters
              /\ d'.act_functions = d.act_functions
              /\ d'.init_functions = d.init_functions
              /\ d'.layers = d.layers
              /\ d'.number_hidden_layers = d.number_hidden_layers
              /\ d'.shapes = FoldShapes(d'.input_dim, d'.filters, d'.strides, d'.number_hidden_layers)]_vars

\* C18: in the ConvDescriptor state a successful add_layer, remove_layer,
\* remove_random_layer, change_filters or change_stride call leaves, shapes
\* has exactly number_hidden_layers entries and shapes[i] is the fold of
\* compute_output over filters[0..i], strides[0..i] from input_dim.
C18_ShapesAreFoldAfterMutation ==
    [][(/\ d.kind = "Conv" /\ pc = "ready" /\ calls' = calls + 1
        /\ \/ last'.op \in {"add_layer", "remove_random_layer"} /\ last'.ret = "0"
           \/ last'.op \in {"remove_layer", "change_filters", "change_stride"} /\ last'.ret = "None")
       => /\ Len(d'.shapes) = d'.number_hidden_layers
          /\ d'.number_hidden_layers <= Len(d'.filters)
          /\ d'.number_hidden_layers <= Len(d'.strides)
          /\ d'.shapes = FoldShapes(d'.input_dim, d'.filters, d'.strides, d'.number_hidden_layers)]_vars

\* C20: in every MLPDescriptor state reached from random_init by add_layer,
\* remove_layer, remove_random_layer, change_layer_dimension,
\* change_activation and change_weight_init calls with any positions,
\* len(dims) = number_hidden_layers and
\* len(init_functions) = len(act_functions) = number_hidden_layers + 1.
\* The state a call leaves when it raises is such a state.
C20_MLPLengthsAgree ==
    (d.kind = "MLP" /\ pc \in {"ready", "raised"}
     /\ last.op \in {"random_init", "add_layer", "remove_layer", "remove_random_layer",
                     "change_layer_dimension", "change_activation", "change_weight_init"})
        => /\ Len(d.dims) = d.number_hidden_layers
           /\ Len(d.init_functions) = d.number_hidden_layers + 1
           /\ Len(d.act_functions) = d.number_hidden_layers + 1

\* C21: in every MLPDescriptor state reached from random_init (dropout
\* allowed or not) by add_layer, remove_layer and change_dropout_prob calls,
\* dropout_probs has exactly number_hidden_layers + 1 entries.
C21_DropoutProbsLength ==
    (d.kind = "MLP" /\ pc = "ready"
     /\ last.op \in {"random_init", "add_layer", "remove_layer", "change_dropout_prob"})
        => Len(d.dropout_probs) = d.number_hidden_layers + 1

\* the first n cached output shapes as the fold of the expansive formula
\* (input - 1) * stride + filter over filters[0..n-1], strides[0..n-1], each
\* with the channel of its own filter
RECURSIVE ExpansiveFold(_, _, _, _)
ExpansiveFold(input_shape, filters, strides, n) ==
    IF n = 0 THEN <<>>
    ELSE LET prev == ExpansiveFold(input_shape, filters, strides, n - 1)
             h    == IF n = 1 THEN input_shape[1] ELSE prev[n - 1][2]
             w    == IF n = 1 THEN input_shape[2] ELSE prev[n - 1][3]
             f    == filters[n].a
             st   == strides[n].a
         IN  Append(prev, <<-1, (h - 1) * st[1] + f[1], (w - 1) * st[2] + f[2], f[3]>>)

\* C22: in every TConvDescriptor state reached from random_init on a fresh
\* descriptor by add_layer, remove_layer, remove_random_layer, change_filters
\* and change_stride calls, output_shapes has exactly number_hidden_layers
\* entries and entry i is the expansive formula folded over filters[0..i],
\* strides[0..i] from input_dim with the channel of filters[i]; the cache
\* random_init builds incrementally equals that full recompute.
C22_TConvShapesAreFold ==
    (d.kind = "TConv" /\ pc \in {"ready", "raised"})
        => /\ d.number_hidden_layers >= 0
           /\ Len(d.output_shapes) = d.number_hidden_layers
           /\ Len(d.filters) = d.number_hidden_layers
           /\ Len(d.strides) = d.number_hidden_layers
           /\ d.output_shapes = ExpansiveFold(d.input_dim, d.filters, d.strides, d.number_hidden_layers)

\* C23: every layer stored in a ConvDescriptor or TConvDescriptor, by
\* random_init or by add_layer, has a channel count >= 1, and every cached
\* shape consists of positive integers (the leading -1 of a TConvDescriptor
\* shape is the batch placeholder, not a size).
C23_ChannelsPositive ==
    (d.kind \in {"Conv", "TConv"} /\ pc = "ready")
        => /\ \A k \in 1..Len(d.filters) :
                /\ d.filters[k].a[3] >= 1
                /\ d.filters[k].b # <<>> => d.filters[k].b[3] >= 1
           /\ d.kind = "Conv" =>
                \A k \in 1..Len(d.shapes) : \A j \in 1..Len(d.shapes[k]) : d.shapes[k][j] >= 1
           /\ d.kind = "TConv" =>
                \A k \in 1..Len(d.output_shapes) :
                   \A j \in 2..Len(d.output_shapes[k]) : d.output_shapes[k][j] >= 1

\* C24: in every ConvDescriptor state reached from random_init by add_layer
\* and remove_layer calls, every entry of filters and of strides is a
\* (primary, companion) pair, and filters[i], strides[i] exist for every
\* i < number_hidden_layers, so that the reads filters[i][0][2] and
\* strides[i][0][0] are defined.  The state a call leaves when it raises is
\* such a state.
C24_ConvEntriesArePairs ==
    (d.kind = "Conv" /\ loc.nlayers > 0 /\ pc \in {"ready", "raised"}
     /\ last.op \in {"random_init", "add_layer", "remove_layer"})
        => /\ \A k \in 1..Len(d.filters) : d.filters[k].rep = "pair"
           /\ \A k \in 1..Len(d.strides) : d.strides[k].rep = "pair"
           /\ d.number_hidden_layers <= Len(d.filters)
           /\ d.number_hidden_layers <= Len(d.strides)

\* the last layer's channel parameter and the channel of the last cached
\* output shape are the target channel depth output_dim[2]
LastChannelIsTarget(self) ==
    /\ self.filters # <<>>
    /\ self.filters[Len(self.filters)].a[3] = self.output_dim[3]
    /\ self.output_shapes # <<>>
    /\ self.output_shapes[Len(self.output_shapes)][4] = self.output_dim[3]

\* C25: random_init leaves the last layer of a TConvDescriptor with the target
\* channel depth, and every add_layer, remove_layer, remove_random_layer and
\* change_stride call made after it keeps the last layer's channel (and the
\* channel of the last cached output shape) equal to that depth.
C25_LastChannelStaysTarget ==
    [][/\ (d.kind = "TConv" /\ pc = "tail" /\ pc' = "ready") => LastChannelIsTarget(d')
       /\ (d.kind = "TConv" /\ pc = "ready" /\ calls = 0 /\ LastChannelIsTarget(d)
           /\ last'.op \in {"add_layer", "remove_layer", "remove_random_layer", "change_stride"}
           /\ last'.ret # "raise")
             => LastChannelIsTarget(d')]_vars

\* C26: ConvDescriptor.random_init with nlayers >= 1 leaves, whatever it
\* draws, at least one accepted layer (number_hidden_layers >= 1 and shapes
\* non-empty), so that every later add_layer call finds the last cached shape
\* and returns 0 or 1.
C26_ConvInitKeepsOneLayer ==
    /\ (d.kind = "Conv" /\ loc.nlayers >= 1 /\ pc = "ready" /\ last.op = "random_init")
          => (d.number_hidden_layers >= 1 /\ d.shapes # <<>>)
    /\ (d.kind = "Conv" /\ loc.nlayers >= 1 /\ last.op = "add_layer")
          => last.ret \in {"0", "1"}

\* C27: on an MLPDescriptor no remove_layer or remove_random_layer call
\* takes number_hidden_layers below 2 (a call that lowers it leaves at least
\* 2, and a count of at least 2 stays at least 2), and when
\* number_hidden_layers <= 2 remove_random_layer leaves the whole descriptor
\* unchanged for every index it can draw.
C27_MLPRemovalFloor ==
    [][(d.kind = "MLP" /\ pc = "ready" /\ calls' = calls + 1
        /\ last'.op \in {"remove_layer", "remove_random_layer"})
       => /\ d'.number_hidden_layers <= d.number_hidden_layers
          /\ d'.number_hidden_layers < d.number_hidden_layers => d'.number_hidden_layers >= 2
          /\ d.number_hidden_layers >= 2 => d'.number_hidden_layers >= 2
          /\ (last'.op = "remove_random_layer" /\ d.number_hidden_layers <= 2)
                => (d' = d /\ last'.ret = "None")]_vars

C27_Witness ==
    /\ d.kind = "MLP" /\ pc = "ready" /\ calls = 1
    /\ last.op = "remove_random_layer" /\ last.pos = 2 /\ last.ret = "None"
    /\ d.number_hidden_layers = 2
    /\ Len(d.dims) = 2 /\ Len(d.act_functions) = 3 /\ Len(d.dropout_probs) = 3

====
